---------------------------- MODULE Spec2Model ----------------------------
(***************************************************************************)
(* The audio codec and the real-time sample pipelines of the archived      *)
(* WebRTC experiments of softphone-demo:                                   *)
(*   - the G.711 mu-law codec (decodeSample8 / decodeSample, encodeSample  *)
(*     / encodeSample16) and the float <-> int16 conversions;              *)
(*   - the inbound AudioWorklet processor (handleMessage / process) with   *)
(*     its sample queue;                                                   *)
(*   - the outbound AudioWorklet processor (process) with its sequence     *)
(*     counter and message port.                                           *)
(*                                                                         *)
(* JavaScript numbers are modelled as integers where the code applies the  *)
(* 32-bit bitwise operators, and as exact rationals [n, d] (numerator,     *)
(* positive denominator) where the code computes floating-point samples;   *)
(* the rounding of IEEE division, and of the store into a Float32Array, is *)
(* below the model's resolution (samples are compared by value).  The      *)
(* JavaScript value -0 is the integer 0 here: the code never distinguishes *)
(* them (-0 > 0 is false, -0 >> 8 is 0, -0 || 0 is 0).                     *)
(***************************************************************************)
EXTENDS Integers, Sequences, FiniteSets, TLC

(***************************************************************************)
(* JavaScript's 32-bit integer operators, on two's-complement integers.    *)
(* Every operand of the modelled code stays far inside 32 bits, where      *)
(* ToInt32 is the identity; the operators are computed bit by bit, the     *)
(* sign extending to the left as in two's complement.                      *)
(***************************************************************************)
RECURSIVE Pow2(_)
Pow2(k) == IF k <= 0 THEN 1 ELSE 2 * Pow2(k - 1)

\* a & b
RECURSIVE BitAnd(_, _)
BitAnd(a, b) ==
    IF a = 0 \/ b = 0 THEN 0
    ELSE IF a = -1 THEN b
    ELSE IF b = -1 THEN a
    ELSE (a % 2) * (b % 2) + 2 * BitAnd(a \div 2, b \div 2)

\* a | b
RECURSIVE BitOr(_, _)
BitOr(a, b) ==
    IF a = 0 THEN b
    ELSE IF b = 0 THEN a
    ELSE IF a = -1 \/ b = -1 THEN -1
    ELSE (IF a % 2 = 1 \/ b % 2 = 1 THEN 1 ELSE 0) + 2 * BitOr(a \div 2, b \div 2)

\* ~a
BitNot(a) == -a - 1

\* JavaScript ^ on two's-complement integers
BitXor(a, b) == BitOr(a, b) - BitAnd(a, b)

\* a >> k (sign-propagating)
Shr(a, k) == a \div Pow2(k)

\* a << k
Shl(a, k) == a * Pow2(k)

(***************************************************************************)
(* The mu-law decoder of the inbound processor (decodeSample8) and its     *)
(* copy beside the encoder (decodeSample).  Tables are 0-indexed in the    *)
(* source and 1-indexed here.                                              *)
(***************************************************************************)
decodeTable == <<0, 132, 396, 924, 1980, 4092, 8316, 16764>>

\* the mutant of decodeSample8: the sign bit is ignored
decodeSample8_NoSign(sample8) ==
    LET c        == BitNot(sample8)
        exponent == BitAnd(Shr(c, 4), 7)
        mantissa == BitAnd(c, 15)
    IN  decodeTable[exponent + 1] + Shl(mantissa, exponent + 3)

\* the mutant of decodeSample8: the input is not complemented
decodeSample8_NoComplement(sample8) ==
    LET sign     == BitAnd(sample8, 128)
        exponent == BitAnd(Shr(sample8, 4), 7)
        mantissa == BitAnd(sample8, 15)
        sample   == decodeTable[exponent + 1] + Shl(mantissa, exponent + 3)
    IN  IF sign # 0 THEN -sample ELSE sample

decodeSample8(sample8) ==
    LET c        == BitNot(sample8)
        sign     == BitAnd(c, 128)
        exponent == BitAnd(Shr(c, 4), 7)
        mantissa == BitAnd(c, 15)
        sample   == decodeTable[exponent + 1] + Shl(mantissa, exponent + 3)
    IN  IF sign # 0 THEN -sample ELSE sample

decodeTableCodec == <<0, 132, 396, 924, 1980, 4092, 8316, 16764>>

\* the mutant of decodeSample: the mantissa is shifted one bit too far
decodeSample_Shift4(muLawSample) ==
    LET c        == BitNot(muLawSample)
        sign     == BitAnd(c, 128)
        exponent == BitAnd(Shr(c, 4), 7)
        mantissa == BitAnd(c, 15)
        sample   == decodeTableCodec[exponent + 1] + Shl(mantissa, exponent + 4)
    IN  IF sign # 0 THEN -sample ELSE sample

decodeSample(muLawSample) ==
    LET c        == BitNot(muLawSample)
        sign     == BitAnd(c, 128)
        exponent == BitAnd(Shr(c, 4), 7)
        mantissa == BitAnd(c, 15)
        sample   == decodeTableCodec[exponent + 1] + Shl(mantissa, exponent + 3)
    IN  IF sign # 0 THEN -sample ELSE sample

(***************************************************************************)
(* The mu-law encoder: encodeSample and its copy encodeSample16 in the     *)
(* sequenced outbound worklet, each with its own constants and table.      *)
(***************************************************************************)
BIAS == 132

CLIP == 32635

encodeTable ==
    <<0,0,1,1,2,2,2,2,3,3,3,3,3,3,3,3,
      4,4,4,4,4,4,4,4,4,4,4,4,4,4,4,4,
      5,5,5,5,5,5,5,5,5,5,5,5,5,5,5,5,
      5,5,5,5,5,5,5,5,5,5,5,5,5,5,5,5,
      6,6,6,6,6,6,6,6,6,6,6,6,6,6,6,6,
      6,6,6,6,6,6,6,6,6,6,6,6,6,6,6,6,
      6,6,6,6,6,6,6,6,6,6,6,6,6,6,6,6,
      6,6,6,6,6,6,6,6,6,6,6,6,6,6,6,6,
      7,7,7,7,7,7,7,7,7,7,7,7,7,7,7,7,
      7,7,7,7,7,7,7,7,7,7,7,7,7,7,7,7,
      7,7,7,7,7,7,7,7,7,7,7,7,7,7,7,7,
      7,7,7,7,7,7,7,7,7,7,7,7,7,7,7,7,
      7,7,7,7,7,7,7,7,7,7,7,7,7,7,7,7,
      7,7,7,7,7,7,7,7,7,7,7,7,7,7,7,7,
      7,7,7,7,7,7,7,7,7,7,7,7,7,7,7,7,
      7,7,7,7,7,7,7,7,7,7,7,7,7,7,7,7>>

\* the index encodeSample looks up in encodeTable: (sample >> 7) & 0xFF
\* after the sign, the bias and the clip
encodeIndex(sample) ==
    LET sign == BitAnd(Shr(sample, 8), 128)
        s1   == IF sign # 0 THEN -sample ELSE sample
        s2   == s1 + BIAS
        s3   == IF s2 > CLIP THEN CLIP ELSE s2
    IN  BitAnd(Shr(s3, 7), 255)

\* the mutant of encodeSample: the clip to CLIP is missing
encodeSample_NoClip(sample) ==
    LET sign     == BitAnd(Shr(sample, 8), 128)
        s1       == IF sign # 0 THEN -sample ELSE sample
        s2       == s1 + BIAS
        exponent == encodeTable[BitAnd(Shr(s2, 7), 255) + 1]
        mantissa == BitAnd(Shr(s2, exponent + 3), 15)
    IN  BitNot(BitOr(BitOr(sign, Shl(exponent, 4)), mantissa))

\* the mutant of encodeSample: the segment is looked up with sample >> 8
encodeSample_WrongSegment(sample) ==
    LET sign     == BitAnd(Shr(sample, 8), 128)
        s1       == IF sign # 0 THEN -sample ELSE sample
        s2       == s1 + BIAS
        s3       == IF s2 > CLIP THEN CLIP ELSE s2
        exponent == encodeTable[BitAnd(Shr(s3, 8), 255) + 1]
        mantissa == BitAnd(Shr(s3, exponent + 3), 15)
    IN  BitNot(BitOr(BitOr(sign, Shl(exponent, 4)), mantissa))

\* the mutant of encodeSample: a negative sample is not negated
encodeSample_NoNegate(sample) ==
    LET sign     == BitAnd(Shr(sample, 8), 128)
        s2       == sample + BIAS
        s3       == IF s2 > CLIP THEN CLIP ELSE s2
        exponent == encodeTable[BitAnd(Shr(s3, 7), 255) + 1]
        mantissa == BitAnd(Shr(s3, exponent + 3), 15)
    IN  BitNot(BitOr(BitOr(sign, Shl(exponent, 4)), mantissa))

encodeSample(sample) ==
    LET sign     == BitAnd(Shr(sample, 8), 128)
        s1       == IF sign # 0 THEN -sample ELSE sample
        s2       == s1 + BIAS
        s3       == IF s2 > CLIP THEN CLIP ELSE s2
        exponent == encodeTable[BitAnd(Shr(s3, 7), 255) + 1]
        mantissa == BitAnd(Shr(s3, exponent + 3), 15)
    IN  BitNot(BitOr(BitOr(sign, Shl(exponent, 4)), mantissa))

BIAS16 == 132

CLIP16 == 32635

\* the mutant of encodeTable16: the entry of index 128 belongs to segment 6
encodeTable16_Boundary ==
    [i \in 1 .. 256 |->
        IF i <= 2 THEN 0 ELSE IF i <= 4 THEN 1 ELSE IF i <= 8 THEN 2
        ELSE IF i <= 16 THEN 3 ELSE IF i <= 32 THEN 4 ELSE IF i <= 64 THEN 5
        ELSE IF i <= 129 THEN 6 ELSE 7]

encodeTable16 ==
    <<0,0,1,1,2,2,2,2,3,3,3,3,3,3,3,3,
      4,4,4,4,4,4,4,4,4,4,4,4,4,4,4,4,
      5,5,5,5,5,5,5,5,5,5,5,5,5,5,5,5,
      5,5,5,5,5,5,5,5,5,5,5,5,5,5,5,5,
      6,6,6,6,6,6,6,6,6,6,6,6,6,6,6,6,
      6,6,6,6,6,6,6,6,6,6,6,6,6,6,6,6,
      6,6,6,6,6,6,6,6,6,6,6,6,6,6,6,6,
      6,6,6,6,6,6,6,6,6,6,6,6,6,6,6,6,
      7,7,7,7,7,7,7,7,7,7,7,7,7,7,7,7,
      7,7,7,7,7,7,7,7,7,7,7,7,7,7,7,7,
      7,7,7,7,7,7,7,7,7,7,7,7,7,7,7,7,
      7,7,7,7,7,7,7,7,7,7,7,7,7,7,7,7,
      7,7,7,7,7,7,7,7,7,7,7,7,7,7,7,7,
      7,7,7,7,7,7,7,7,7,7,7,7,7,7,7,7,
      7,7,7,7,7,7,7,7,7,7,7,7,7,7,7,7,
      7,7,7,7,7,7,7,7,7,7,7,7,7,7,7,7>>

\* the mutant of encodeSample16: the bias is not added
encodeSample16_NoBias(sample16) ==
    LET sign     == BitAnd(Shr(sample16, 8), 128)
        s1       == IF sign # 0 THEN -sample16 ELSE sample16
        s3       == IF s1 > CLIP16 THEN CLIP16 ELSE s1
        exponent == encodeTable16[BitAnd(Shr(s3, 7), 255) + 1]
        mantissa == BitAnd(Shr(s3, exponent + 3), 15)
    IN  BitNot(BitOr(BitOr(sign, Shl(exponent, 4)), mantissa))

\* the mutant of encodeSample16: the mantissa is shifted by exponent + 2
encodeSample16_MantissaShift(sample16) ==
    LET sign     == BitAnd(Shr(sample16, 8), 128)
        s1       == IF sign # 0 THEN -sample16 ELSE sample16
        s2       == s1 + BIAS16
        s3       == IF s2 > CLIP16 THEN CLIP16 ELSE s2
        exponent == encodeTable16[BitAnd(Shr(s3, 7), 255) + 1]
        mantissa == BitAnd(Shr(s3, exponent + 2), 15)
    IN  BitNot(BitOr(BitOr(sign, Shl(exponent, 4)), mantissa))

encodeSample16(sample16) ==
    LET sign     == BitAnd(Shr(sample16, 8), 128)
        s1       == IF sign # 0 THEN -sample16 ELSE sample16
        s2       == s1 + BIAS16
        s3       == IF s2 > CLIP16 THEN CLIP16 ELSE s2
        exponent == encodeTable16[BitAnd(Shr(s3, 7), 255) + 1]
        mantissa == BitAnd(Shr(s3, exponent + 3), 15)
    IN  BitNot(BitOr(BitOr(sign, Shl(exponent, 4)), mantissa))

(***************************************************************************)
(* Floating-point samples: exact rationals n/d with d > 0.                 *)
(***************************************************************************)
Float(n, d) == [n |-> n, d |-> d]

\* numeric equality of two floats (JavaScript ===, with -0 === 0)
FloatEq(a, b) == a.n * b.d = b.n * a.d

\* the literal 0 of the source
FZero == Float(0, 1)

\* x || 0 : a falsy number (0, -0) gives the literal 0
OrZero(x) == IF x.n = 0 THEN FZero ELSE x

\* the mutant of getSample32: one symmetric scale
getSample32_Symmetric(sample16) == Float(sample16, 32768)

getSample32(sample16) ==
    IF sample16 > 0 THEN Float(sample16, 32767) ELSE Float(sample16, 32768)

\* the conversion of one sample in loadSample16 of the WAV converter
loadSample16Sample(integerSample) ==
    IF integerSample > 0 THEN Float(integerSample, 32767)
    ELSE Float(integerSample, 32768)


\* the Int16Array store: truncate toward zero, then wrap to 16 bits
ToInt16(n, d) ==
    LET t == IF n >= 0 THEN n \div d ELSE -((-n) \div d)
        u == t % 65536
    IN  IF u >= 32768 THEN u - 65536 ELSE u

\* the mutant of getSample16: one symmetric scale
getSample16_Symmetric(sample32) == ToInt16(sample32.n * 32768, sample32.d)

getSample16(sample32) ==
    IF sample32.n > 0
    THEN ToInt16(sample32.n * 32767, sample32.d)
    ELSE ToInt16(sample32.n * 32768, sample32.d)

\* the mutant of getHighOrderByte: the low byte
getHighOrderByte_Low(sample16) == BitAnd(sample16, 255)

getHighOrderByte(sample16) == BitAnd(Shr(sample16, 8), 255)

getLowOrderByte(sample16) == BitAnd(sample16, 255)

(***************************************************************************)
(* bytes.js: reading 16-bit samples back from big-endian bytes.            *)
(***************************************************************************)
\* the 16 bytes of the network buffer
bytesJs == <<251, 164, 252, 100, 253, 148, 254, 236, 0, 32, 0, 180, 0, 244, 1, 84>>

\* the mutant of getInt16: the sign is not extended
getInt16_NoSign(lowOrderByte, highOrderByte) ==
    BitOr(Shl(BitAnd(highOrderByte, 255), 8), BitAnd(lowOrderByte, 255))

\* 0xFFFF0000 | x is computed on 32-bit integers, where 0xFFFF0000 is -65536
getInt16(lowOrderByte, highOrderByte) ==
    LET sign == BitAnd(highOrderByte, Shl(1, 7))
        x    == BitOr(Shl(BitAnd(highOrderByte, 255), 8), BitAnd(lowOrderByte, 255))
    IN  IF sign # 0 THEN BitOr(-65536, x) ELSE x

\* the loop filling samples16, an Int16Array, from the bytes two by two
RECURSIVE ReadSamples16(_)
ReadSamples16(bytes) ==
    IF Len(bytes) < 2 THEN <<>>
    ELSE <<ToInt16(getInt16(bytes[2], bytes[1]), 1)>>
         \o ReadSamples16(Tail(Tail(bytes)))

(***************************************************************************)
(* Bounds of the model and the inputs drawn by the actions.                *)
(***************************************************************************)
\* the most samples that arrive in one session of the inbound processor
MaxArrived == 3

\* the longest inbound message, in bytes
MaxMsgLen == 3

\* the largest output block the audio engine asks for
MaxPull == 2

\* the longest capture block
MaxBlockLen == 2

\* the most capture blocks of one session of the outbound processor
MaxBlocks == 2

\* the grid of the float inputs of getSample16: every k / FloatGrid in [-1, 1]
FloatGrid == 1000

\* float inputs of getSample16: the grid, and the values next to -1, 0 and 1
\* on the scales 1/32767 and 1/32768
FloatInputs ==
    {Float(k, FloatGrid) : k \in -FloatGrid .. FloatGrid}
    \cup {Float(k, d) : k \in {-1, 0, 1}, d \in {1, 2, 3, 32767, 32768}}
    \cup {Float(32766, 32767), Float(-32766, 32767),
          Float(32767, 32768), Float(-32767, 32768)}

\* mu-law bytes of inbound messages: +0 (0xFF), -0 (0x7F), the loudest
\* negative sample (0x00) and a positive sample (0x8F)
MsgBytes == {255, 127, 0, 143}

\* captured float samples: -1.0, 4661/32768 (0x1234 as int16) and 1.0
CaptureSamples == {Float(-1, 1), Float(4661, 32768), Float(1, 1)}

\* one-byte messages and one-sample blocks, for the specifications that
\* run both processors
SessionBytes == {<<255>>, <<0>>}

SessionBlocks == {<<Float(1, 1)>>}

\* the latest minute of the clock
MaxNow == 6

\* the largest retries argument of loadAudioWorklet
MaxRetriesArg == 4

RECURSIVE SeqsUpTo(_, _)
SeqsUpTo(S, k) ==
    IF k <= 0 THEN {<<>>}
    ELSE LET shorter == SeqsUpTo(S, k - 1)
         IN  shorter \cup {Append(q, x) : q \in shorter, x \in S}

VARIABLES
    queue,          \* InboundAudioProcessor._queue
    output,         \* outputs[0][0] as the last call of process left it
    slots,          \* per output position of that call: padded or not, and
                    \* the queue length when the position was written
    arrived,        \* every sample pushed so far, in order
    played,         \* every sample written from the queue to an output so far
    call,           \* the last operation called and its argument
    worklet,        \* which outbound worklet module the session loaded
    sequenceNumber, \* OutboundAudioProcessor._sequenceNumber
    port,           \* the messages posted on the outbound processor's port
    captured,       \* the capture block behind each posted message
    codec,          \* the last call of a codec function and its results
    socket,         \* the client's socket: null, or the readyState of the
                    \* WebSocket it refers to
    outboundAudioContext, \* the client's outbound context: null or running
    delivered,      \* how many messages of port have reached onmessage
    sent,           \* the messages given to socket.send, in order
    pc,             \* where handleConnect stands
    jobStatus,      \* handleConnect's jobStatus.status, read once assigned
    retryCount,     \* handleConnect's retryCount
    checks,         \* the calls of checkJobStatus made by handleConnect
    sawReady,       \* whether one of them returned status 2
    thrown,         \* the error handleConnect's try block raised
    shownError,     \* the error the page shows
    conversation,   \* the page's conversation
    inputs,         \* the inputs argument of the last outbound process call
    events,         \* the audio messages the client's socket received
    inPort,         \* those posted to the inbound worklet and not yet handled
    now,            \* the clock, in minutes
    tokenExp,       \* keycloakInstance.tokenParsed.exp, in minutes; 0 is none
    timers,         \* the due times of the pending setTimeout callbacks
    refreshing,     \* the keycloakRefresh calls in flight, by origin
    signedOut,      \* whether signOut was called
    isKeycloakInitialized, \* the flag of the same name
    initCalls,      \* how often keycloakInstance.init was invoked
    callers,        \* the calls of initKeycloak and login, by caller
    retries,        \* loadAudioWorklet's argument
    attempts,       \* the outcome of each addModule it awaited
    loadPc,         \* where loadAudioWorklet stands
    loadThrown      \* the error it threw

sendVars == <<socket, outboundAudioContext, delivered, sent>>

connectVars == <<pc, jobStatus, retryCount, checks, sawReady, thrown,
                 shownError, conversation>>

captureVars == <<inputs, events, inPort>>

refreshVars == <<now, tokenExp, timers, refreshing, signedOut>>

keycloakVars == <<isKeycloakInitialized, initCalls, callers>>

loadVars == <<retries, attempts, loadPc, loadThrown>>

pageVars == <<captureVars, refreshVars, keycloakVars, loadVars>>

appVars == <<sendVars, connectVars, pageVars>>

vars == <<queue, output, slots, arrived, played, call,
          worklet, sequenceNumber, port, captured, codec, appVars>>

inboundVars == <<queue, output, slots, arrived, played>>

outboundVars == <<worklet, sequenceNumber, port, captured>>

(***************************************************************************)
(* Inbound processor.  handleMessage (port.onmessage) and process are both *)
(* callbacks of the processor's AudioWorkletGlobalScope: they run on one   *)
(* thread, each to completion, so each is one atomic action and any        *)
(* interleaving of whole calls is possible.                                *)
(***************************************************************************)
\* handleMessage's loop: decode each byte, convert, push
RECURSIVE DecodeBytes(_)
DecodeBytes(bytes) ==
    IF bytes = <<>> THEN <<>>
    ELSE <<getSample32(decodeSample8(Head(bytes)))>> \o DecodeBytes(Tail(bytes))

\* the mutant of Push: a queue of capacity two that drops what does not fit
Push_DropWhenFull(q, samples) ==
    IF Len(q) + Len(samples) > 2 THEN q ELSE q \o samples

\* the mutant of Push: the new samples go to the head of the queue
Push_AtHead(q, samples) == samples \o q

\* _queue.push, once per decoded sample
Push(q, samples) == q \o samples

\* the mutant of HeadDefined: a truthiness test, which a zero sample fails
HeadDefined_Truthy(q) == q # <<>> /\ q[1].n # 0

\* this._queue[0] != undefined
HeadDefined(q) == q # <<>>

\* the mutant of Shift: the queue is read but not consumed
Shift_Keep(q) == q

\* the queue after _queue.shift()
Shift(q) == Tail(q)

\* the mutant of ProcessStep: nothing is written when the queue is empty
ProcessStep_NoFill(st) ==
    IF HeadDefined(st.queue)
    THEN [queue  |-> Shift(st.queue),
          output |-> Append(st.output, OrZero(Head(st.queue))),
          slots  |-> Append(st.slots, [pad |-> FALSE, qlen |-> Len(st.queue)]),
          taken  |-> Append(st.taken, OrZero(Head(st.queue)))]
    ELSE st

\* one iteration of process's loop; taken collects what the shift branch wrote
ProcessStep(st) ==
    IF HeadDefined(st.queue)
    THEN [queue  |-> Shift(st.queue),
          output |-> Append(st.output, OrZero(Head(st.queue))),
          slots  |-> Append(st.slots, [pad |-> FALSE, qlen |-> Len(st.queue)]),
          taken  |-> Append(st.taken, OrZero(Head(st.queue)))]
    ELSE [queue  |-> st.queue,
          output |-> Append(st.output, FZero),
          slots  |-> Append(st.slots, [pad |-> TRUE, qlen |-> Len(st.queue)]),
          taken  |-> st.taken]

\* the mutant of ProcessLoop: the loop body never runs
ProcessLoop_Skipped(st, i, requestedSampleCount) == st

RECURSIVE ProcessLoop(_, _, _)
ProcessLoop(st, i, requestedSampleCount) ==
    IF i >= requestedSampleCount THEN st
    ELSE ProcessLoop(ProcessStep(st), i + 1, requestedSampleCount)

\* the mutant of KeepAlive: a call that had nothing to do lets the node stop
KeepAlive_OnlyWithWork(hadWork) == hadWork

\* return true, at the end of every path of both process callbacks
KeepAlive(hadWork) == TRUE

InboundInit ==
    /\ queue = <<>>
    /\ output = <<>>
    /\ slots = <<>>
    /\ arrived = <<>>
    /\ played = <<>>

handleMessage(bytes) ==
    /\ Len(arrived) + Len(bytes) <= MaxArrived
    /\ LET samples == DecodeBytes(bytes)
       IN  /\ queue' = Push(queue, samples)
           /\ arrived' = arrived \o samples
    /\ call' = [op |-> "handleMessage", bytes |-> bytes]
    /\ UNCHANGED <<output, slots, played>>

process(requestedSampleCount) ==
    /\ LET st == ProcessLoop([queue |-> queue, output |-> <<>>,
                              slots |-> <<>>, taken |-> <<>>],
                             0, requestedSampleCount)
       IN  /\ queue' = st.queue
           /\ output' = st.output
           /\ slots' = st.slots
           /\ played' = played \o st.taken
           /\ call' = [op |-> "process", n |-> requestedSampleCount,
                       returned |-> KeepAlive(st.taken # <<>>)]
    /\ UNCHANGED arrived

(***************************************************************************)
(* Outbound processor: the archived worklet and the sequenced one.  The    *)
(* sequenced worklet calls getHighOrderByte and getLowOrderByte, which the *)
(* archived worklet's file defines; both use the same definitions here.    *)
(***************************************************************************)
\* process's loop: the Uint8Array of 2 * samples32.length bytes
RECURSIVE EncodeBlock(_)
EncodeBlock(samples32) ==
    IF samples32 = <<>> THEN <<>>
    ELSE LET sample16 == getSample16(Head(samples32))
         IN  <<getHighOrderByte(sample16) % 256, getLowOrderByte(sample16) % 256>>
             \o EncodeBlock(Tail(samples32))

\* the mutant of NextSequenceNumber: the counter skips a value
NextSequenceNumber_Skip(n) == n + 2

\* this._sequenceNumber += 1
NextSequenceNumber(n) == n + 1

\* the mutant of NoInputSequenceNumber: a call without input uses up a number
NoInputSequenceNumber_Counted(n) == n + 1

\* the counter after the early return of process: not written
NoInputSequenceNumber(n) == n

\* the mutant of PostMessage: the message is held back
PostMessage_Drop(p, message) == p

\* this.port.postMessage
PostMessage(p, message) == Append(p, message)

OutboundInit ==
    /\ sequenceNumber = 0
    /\ port = <<>>
    /\ captured = <<>>

\* process of the sequenced worklet, inputs[0][0] present
outboundProcess(samples32) ==
    /\ worklet = "sequenced"
    /\ Len(port) < MaxBlocks
    /\ port' = PostMessage(port, [buffer |-> EncodeBlock(samples32),
                                  sequenceNumber |-> sequenceNumber])
    /\ sequenceNumber' = NextSequenceNumber(sequenceNumber)
    /\ captured' = Append(captured, samples32)
    /\ call' = [op |-> "outboundProcess", returned |-> KeepAlive(TRUE)]
    /\ UNCHANGED worklet

\* process of the archived worklet, inputs[0][0] present
archiveProcess(samples32) ==
    /\ worklet = "archive"
    /\ Len(port) < MaxBlocks
    /\ port' = PostMessage(port, [buffer |-> EncodeBlock(samples32)])
    /\ captured' = Append(captured, samples32)
    /\ call' = [op |-> "archiveProcess", returned |-> KeepAlive(TRUE)]
    /\ UNCHANGED <<worklet, sequenceNumber>>

\* process of either worklet, inputs[0][0] absent
processNoInput ==
    /\ call' = [op |-> "processNoInput", returned |-> KeepAlive(FALSE)]
    /\ sequenceNumber' = NoInputSequenceNumber(sequenceNumber)
    /\ UNCHANGED <<worklet, port, captured>>

(***************************************************************************)
(* Codec calls.                                                            *)
(***************************************************************************)
Int16 == -32768 .. 32767

CodecIdle == [op |-> "idle"]

\* a decode call on any byte
callDecode ==
    /\ codec.op = "idle"
    /\ \E b \in 0 .. 255 :
          codec' = [op |-> "decode", input |-> b,
                    sample8 |-> decodeSample8(b), sample |-> decodeSample(b)]

\* an encode call on any signed 16-bit sample
callEncode ==
    /\ codec.op = "idle"
    /\ \E s \in Int16 :
          codec' = [op |-> "encode", input |-> s, index |-> encodeIndex(s),
                    muLaw |-> encodeSample(s), muLaw16 |-> encodeSample16(s)]

\* encode what the last decode returned
callEncodeDecoded ==
    /\ codec.op = "decode"
    /\ codec' = [op |-> "roundtrip", input |-> codec.input,
                 muLaw |-> encodeSample(codec.sample),
                 muLaw16 |-> encodeSample16(codec.sample8)]

callReturn ==
    /\ codec.op # "idle"
    /\ codec' = CodecIdle

\* a getSample16 call on a float in [-1, 1]
callGetSample16 ==
    /\ codec.op = "idle"
    /\ \E x \in FloatInputs :
          codec' = [op |-> "getSample16", input |-> x, sample16 |-> getSample16(x)]

\* a getSample32 call, and the converter's conversion, on any 16-bit sample
callGetSample32 ==
    /\ codec.op = "idle"
    /\ \E s \in Int16 :
          codec' = [op |-> "getSample32", input |-> s,
                    sample32 |-> getSample32(s), loaded |-> loadSample16Sample(s)]

\* the bytes of any 16-bit sample read back by getInt16
callGetInt16 ==
    /\ codec.op = "idle"
    /\ \E s \in Int16 :
          LET high == getHighOrderByte(s)
              low  == getLowOrderByte(s)
          IN  codec' = [op |-> "getInt16", input |-> s, high |-> high,
                        low |-> low, value |-> getInt16(low, high)]

\* bytes.js run as a script
runBytesJs ==
    /\ codec.op = "idle"
    /\ codec' = [op |-> "bytesJs", samples16 |-> ReadSamples16(bytesJs)]

(***************************************************************************)
(* Construction of the processors: a session is one AudioWorkletNode, and  *)
(* with it one newly constructed processor.                                *)
(***************************************************************************)
\* the mutant of ConstructSequenceNumber: the counter survives the session
ConstructSequenceNumber_Keep(old) == old

\* this._sequenceNumber = 0 in the constructor
ConstructSequenceNumber(old) == 0

\* new InboundAudioProcessor: the field initializer _queue = []
constructInbound ==
    /\ queue' = <<>>
    /\ output' = <<>>
    /\ slots' = <<>>
    /\ arrived' = <<>>
    /\ played' = <<>>
    /\ call' = [op |-> "constructor", of |-> "inbound", discarded |-> Len(queue)]

\* new OutboundAudioProcessor, with the new node's port
constructOutbound ==
    /\ sequenceNumber' = ConstructSequenceNumber(sequenceNumber)
    /\ port' = <<>>
    /\ captured' = <<>>
    /\ call' = [op |-> "constructor", of |-> "outbound",
                discarded |-> sequenceNumber]
    /\ UNCHANGED worklet

(***************************************************************************)
(* The call-service client's send path.  socket is "null" or the           *)
(* readyState of the WebSocket the variable refers to.                     *)
(***************************************************************************)
SendInit ==
    /\ socket = "null"
    /\ outboundAudioContext = "null"
    /\ delivered = 0
    /\ sent = <<>>

\* window.btoa of the binary string of bytes: the indices of the base64
\* alphabet, 64 standing for the padding character
RECURSIVE encodeBase64(_)
encodeBase64(bytes) ==
    IF bytes = <<>> THEN <<>>
    ELSE IF Len(bytes) = 1
    THEN <<bytes[1] \div 4, (bytes[1] % 4) * 16, 64, 64>>
    ELSE IF Len(bytes) = 2
    THEN <<bytes[1] \div 4, (bytes[1] % 4) * 16 + bytes[2] \div 16,
           (bytes[2] % 16) * 4, 64>>
    ELSE <<bytes[1] \div 4, (bytes[1] % 4) * 16 + bytes[2] \div 16,
           (bytes[2] % 16) * 4 + bytes[3] \div 64, bytes[3] % 64>>
         \o encodeBase64(SubSeq(bytes, 4, Len(bytes)))

\* socket = new WebSocket(url) in handleConnectAsnyc
handleConnectAsnyc ==
    /\ socket' = "CONNECTING"
    /\ call' = [op |-> "handleConnectAsnyc"]
    /\ UNCHANGED <<outboundAudioContext, delivered, sent>>

\* createOutboundAudioContextAsync: a new context and a new worklet node
\* whose port.onmessage is handleOutboundMessageAsync
createOutboundAudioContextAsync ==
    /\ outboundAudioContext' = "running"
    /\ sequenceNumber' = ConstructSequenceNumber(sequenceNumber)
    /\ call' = [op |-> "createOutboundAudioContextAsync"]
    /\ UNCHANGED <<socket, delivered, sent, worklet, port, captured>>

\* the browser opens the connection: readyState 1, then handleWebSocketOpen
handleWebSocketOpen ==
    /\ socket = "CONNECTING"
    /\ socket' = "OPEN"
    /\ call' = [op |-> "handleWebSocketOpen"]
    /\ UNCHANGED <<outboundAudioContext, delivered, sent>>

\* the closing handshake starts: readyState 2
socketClosing ==
    /\ socket = "OPEN"
    /\ socket' = "CLOSING"
    /\ call' = [op |-> "socketClosing"]
    /\ UNCHANGED <<outboundAudioContext, delivered, sent>>

\* handleDisconnect, from the button or from handleWebSocketError and
\* handleWebSocketClose
handleDisconnect ==
    /\ socket' = "null"
    /\ outboundAudioContext' = "null"
    /\ call' = [op |-> "handleDisconnect"]
    /\ UNCHANGED <<delivered, sent>>

\* handleOutboundMessageAsync on the next message of the port; reading
\* readyState of null raises a TypeError, which rejects the promise the
\* async function returns
handleOutboundMessageAsync ==
    /\ delivered < Len(port)
    /\ LET data    == port[delivered + 1]
           message == [type |-> "OutboundAudio",
                       payload |-> encodeBase64(data.buffer),
                       sequenceNumber |-> data.sequenceNumber]
       IN  /\ delivered' = delivered + 1
           /\ IF socket = "null"
              THEN /\ call' = [op |-> "handleOutboundMessageAsync",
                               socket |-> socket, outcome |-> "TypeError"]
                   /\ sent' = sent
              ELSE IF socket = "OPEN"
              THEN /\ call' = [op |-> "handleOutboundMessageAsync",
                               socket |-> socket, outcome |-> "sent"]
                   /\ sent' = Append(sent, message)
              ELSE /\ call' = [op |-> "handleOutboundMessageAsync",
                               socket |-> socket, outcome |-> "dropped"]
                   /\ sent' = sent
    /\ UNCHANGED <<socket, outboundAudioContext>>

(***************************************************************************)
(* The arguments the callbacks receive: the inputs of the outbound process *)
(* (inputs, each a list of channels) and the message events of the inbound *)
(* path, from the client's socket through the worklet's port.              *)
(***************************************************************************)
CaptureInit ==
    /\ inputs = <<>>
    /\ events = <<>>
    /\ inPort = <<>>

\* the mutant of FirstChannel: the last channel of the first input is read
FirstChannel_LastChannel(ins) == ins[1][Len(ins[1])]

\* inputs[0][0]
FirstChannel(ins) == ins[1][1]

\* whether inputs[0][0] is there: process returns early when it is not
HasFirstChannel(ins) == Len(ins) >= 1 /\ Len(ins[1]) >= 1

\* the blocks a channel carries
ChannelBlocks == {<<Float(1, 1)>>, <<Float(-1, 1)>>}

\* the inputs of a process call: one input of no, one or two channels, and
\* possibly a second input
CaptureInputs ==
    {<<chs>> : chs \in SeqsUpTo(ChannelBlocks, 2)}
    \cup {<<chs, <<b>>>> : chs \in SeqsUpTo(ChannelBlocks, 2), b \in ChannelBlocks}

\* process(inputs, _, __) of the worklet the session loaded
captureProcess(ins) ==
    /\ inputs' = ins
    /\ IF HasFirstChannel(ins)
       THEN outboundProcess(FirstChannel(ins)) \/ archiveProcess(FirstChannel(ins))
       ELSE processNoInput
    /\ UNCHANGED <<events, inPort>>

\* window.atob and the loop of decodeBase64: the bytes of a base64 text
RECURSIVE decodeBase64(_)
decodeBase64(string) ==
    IF Len(string) < 4 THEN <<>>
    ELSE LET c1 == string[1]
             c2 == string[2]
             c3 == string[3]
             c4 == string[4]
             rest == decodeBase64(SubSeq(string, 5, Len(string)))
         IN  IF c3 = 64 THEN <<c1 * 4 + c2 \div 16>> \o rest
             ELSE IF c4 = 64
             THEN <<c1 * 4 + c2 \div 16, (c2 % 16) * 16 + c3 \div 4>> \o rest
             ELSE <<c1 * 4 + c2 \div 16, (c2 % 16) * 16 + c3 \div 4,
                    (c3 % 4) * 64 + c4>> \o rest

\* the sequence numbers a message may carry
SeqNumbers == 0 .. 2

\* the parsed socket messages: audio with a payload and a number, or text
SocketMessages ==
    [type : {"InboundAudio"}, payload : {encodeBase64(b) : b \in SessionBytes},
     sequenceNumber : SeqNumbers]
    \cup [type : {"InboundText"}, payload : {<<>>}, sequenceNumber : {0}]

\* handleWebSocketMessage: audio goes to the worklet's port, with its number
handleWebSocketMessage(parsed) ==
    /\ Len(events) < MaxArrived
    /\ IF parsed.type = "InboundAudio"
       THEN LET data == [bytes |-> decodeBase64(parsed.payload),
                         sequenceNumber |-> parsed.sequenceNumber]
            IN  /\ events' = Append(events, data)
                /\ inPort' = Append(inPort, data)
       ELSE UNCHANGED <<events, inPort>>
    /\ call' = [op |-> "handleWebSocketMessage", type |-> parsed.type]
    /\ UNCHANGED <<inputs, inboundVars>>

\* the mutant of EventBytes: only a message numbered 0 is read
EventBytes_Numbered(data) ==
    IF data.sequenceNumber = 0 THEN data.bytes ELSE <<>>

\* const bytes = event.data.bytes
EventBytes(data) == data.bytes

\* port.onmessage of the inbound processor on the oldest posted message
deliverMessage ==
    /\ inPort # <<>>
    /\ handleMessage(EventBytes(Head(inPort)))
    /\ inPort' = Tail(inPort)
    /\ UNCHANGED <<inputs, events>>

(***************************************************************************)
(* Token refresh (setupTokenRefresh, the same in AuthApi.ts and in the     *)
(* javascript demo).  Times are in minutes; exp 0 is a missing exp.        *)
(***************************************************************************)
\* the 300000 ms setupTokenRefresh subtracts, in minutes
RefreshLeadMinutes == 5

\* the lifetimes of the tokens Keycloak issues, in minutes
TokenLifetimes == {3, 8}

RefreshInit ==
    /\ now = 0
    /\ tokenExp = 0
    /\ timers = {}
    /\ refreshing = {}
    /\ signedOut = FALSE

\* refreshTime = expirationTime - now - 300000
RefreshTime(exp, t) == exp - t - RefreshLeadMinutes

\* the timers after setupTokenRefresh: setTimeout(..., refreshTime) unless
\* exp is missing or refreshTime <= 0
SetupTimers(ts, exp, t) ==
    IF exp = 0 \/ RefreshTime(exp, t) <= 0 THEN ts
    ELSE ts \cup {t + RefreshTime(exp, t)}

\* the refreshes in flight after setupTokenRefresh: keycloakRefresh() at
\* once when refreshTime <= 0
SetupRefreshing(rs, exp, t) ==
    IF exp # 0 /\ RefreshTime(exp, t) <= 0 THEN rs \cup {"immediate"} ELSE rs

\* login or initKeycloak, authenticated: the token is stored and
\* setupTokenRefresh is called
authenticate ==
    /\ ~signedOut
    /\ tokenExp = 0
    /\ \E lifetime \in TokenLifetimes :
          LET exp == now + lifetime
          IN  /\ tokenExp' = exp
              /\ timers' = SetupTimers(timers, exp, now)
              /\ refreshing' = SetupRefreshing(refreshing, exp, now)
    /\ call' = [op |-> "authenticate"]
    /\ UNCHANGED <<now, signedOut>>

\* a minute passes
tick ==
    /\ ~signedOut
    /\ now < MaxNow
    /\ now' = now + 1
    /\ call' = [op |-> "tick"]
    /\ UNCHANGED <<tokenExp, timers, refreshing, signedOut>>

\* the setTimeout callback: keycloakRefresh() is started
timerFires ==
    /\ ~signedOut
    /\ \E due \in timers :
          /\ due <= now
          /\ timers' = timers \ {due}
    /\ refreshing' = refreshing \cup {"scheduled"}
    /\ call' = [op |-> "timerFires"]
    /\ UNCHANGED <<now, tokenExp, signedOut>>

\* keycloakRefresh resolves, the token renewed or still the old one; only
\* the scheduled refresh has a then that calls setupTokenRefresh
refreshResolves ==
    /\ ~signedOut
    /\ \E origin \in refreshing, exp \in {tokenExp} \cup {now + l : l \in TokenLifetimes} :
          /\ tokenExp' = exp
          /\ IF origin = "scheduled"
             THEN /\ timers' = SetupTimers(timers, exp, now)
                  /\ refreshing' = SetupRefreshing(refreshing \ {origin}, exp, now)
             ELSE /\ timers' = timers
                  /\ refreshing' = refreshing \ {origin}
          /\ call' = [op |-> "refreshSucceeded", origin |-> origin]
    /\ UNCHANGED <<now, signedOut>>

\* keycloakRefresh rejects: the catch calls signOut('true')
refreshRejects ==
    /\ ~signedOut
    /\ \E origin \in refreshing :
          /\ refreshing' = refreshing \ {origin}
          /\ call' = [op |-> "refreshFailed", origin |-> origin]
    /\ signedOut' = TRUE
    /\ UNCHANGED <<now, tokenExp, timers>>

(***************************************************************************)
(* Keycloak initialization (AuthApi.ts): initKeycloak and login, each one  *)
(* step up to its await of keycloakInstance.init and one step after it.    *)
(***************************************************************************)
\* who calls: the two runs of App's effect under StrictMode, and the button
Callers == {"effect", "effectAgain", "button"}

Idle == [fn |-> "none", pc |-> "idle", result |-> "none"]

KeycloakInit ==
    /\ isKeycloakInitialized = FALSE
    /\ initCalls = 0
    /\ callers = [c \in Callers |-> Idle]

\* initKeycloak up to its first await
initKeycloak(c) ==
    /\ callers[c].pc = "idle"
    /\ IF isKeycloakInitialized
       THEN /\ callers' = [callers EXCEPT ![c] =
                  [fn |-> "initKeycloak", pc |-> "done", result |-> "existingToken"]]
            /\ UNCHANGED initCalls
       ELSE /\ callers' = [callers EXCEPT ![c] =
                  [fn |-> "initKeycloak", pc |-> "awaitInit", result |-> "none"]]
            /\ initCalls' = initCalls + 1
    /\ UNCHANGED isKeycloakInitialized

\* login up to its first await
login(c) ==
    /\ callers[c].pc = "idle"
    /\ IF isKeycloakInitialized
       THEN /\ callers' = [callers EXCEPT ![c] =
                  [fn |-> "login", pc |-> "done", result |-> "redirect"]]
            /\ UNCHANGED initCalls
       ELSE /\ callers' = [callers EXCEPT ![c] =
                  [fn |-> "login", pc |-> "awaitInit", result |-> "none"]]
            /\ initCalls' = initCalls + 1
    /\ UNCHANGED isKeycloakInitialized

\* keycloakInstance.init settles for one caller: the flag is set once init
\* resolved, and not at all when it rejected
initSettles(c) ==
    /\ callers[c].pc = "awaitInit"
    /\ \E outcome \in {"authenticated", "anonymous", "error"} :
          /\ callers' = [callers EXCEPT ![c].pc = "done", ![c].result = outcome]
          /\ isKeycloakInitialized' =
                (IF outcome = "error" THEN isKeycloakInitialized ELSE TRUE)
    /\ UNCHANGED initCalls

(***************************************************************************)
(* window.loadAudioWorklet, one await at a time.  attempt is               *)
(* Len(attempts) + 1.                                                       *)
(***************************************************************************)
\* what addModule can reject with
LoadErrors == {"NetworkError", "AbortError"}

LoadInit ==
    /\ retries = 0
    /\ attempts = <<>>
    /\ loadPc = "idle"
    /\ loadThrown = "none"

\* the call, up to the first await: the for loop is entered when
\* 1 <= retries, and left with no return statement otherwise
loadAudioWorklet ==
    /\ loadPc = "idle"
    /\ \E r \in 0 .. MaxRetriesArg :
          /\ retries' = r
          /\ loadPc' = IF 1 <= r THEN "addModule" ELSE "resolvedUndefined"
    /\ attempts' = <<>>
    /\ loadThrown' = "none"

\* await addModule settles: return true, or the catch block
addModuleSettles ==
    /\ loadPc = "addModule"
    /\ \E outcome \in {"ok"} \cup LoadErrors :
          /\ attempts' = Append(attempts, outcome)
          /\ IF outcome = "ok"
             THEN loadPc' = "returnedTrue" /\ loadThrown' = loadThrown
             ELSE IF Len(attempts) + 1 = retries
             THEN loadPc' = "thrown" /\ loadThrown' = outcome
             ELSE loadPc' = "wait" /\ loadThrown' = loadThrown
    /\ UNCHANGED retries

\* the wait of 1000 * attempt ms is over: attempt++ and the loop test
waitElapses ==
    /\ loadPc = "wait"
    /\ loadPc' = IF Len(attempts) + 1 <= retries THEN "addModule"
                 ELSE "resolvedUndefined"
    /\ UNCHANGED <<retries, attempts, loadThrown>>

\* the caller has the result; the function can be called again
loadSettled ==
    /\ loadPc \in {"returnedTrue", "thrown", "resolvedUndefined"}
    /\ loadPc' = "idle"
    /\ UNCHANGED <<retries, attempts, loadThrown>>

(***************************************************************************)
(* handleConnect of the javascript demo, one await at a time.              *)
(***************************************************************************)
\* const maxRetries = 30
maxRetries == 30

\* the statuses a response of checkJobStatus carries; 2 is ready
JobStatuses == {0, 1, 2, 3}

ConnectInit ==
    /\ pc = "idle"
    /\ jobStatus = 0
    /\ retryCount = 0
    /\ checks = 0
    /\ sawReady = FALSE
    /\ thrown = "none"
    /\ shownError = "none"
    /\ conversation = "null"

\* the mutant of KeepsWaiting: one retry more
KeepsWaiting_OneMore(status, count) == status # 2 /\ count <= maxRetries

\* the while condition: jobStatus.status !== 2 && retryCount < maxRetries
KeepsWaiting(status, count) == status # 2 /\ count < maxRetries

\* what checkJobStatus does to the page: hideError when the response is ok,
\* showError with the response's error otherwise
AfterCheck(ok, shown) ==
    IF ok THEN "none" ELSE "Failed to check job status"

\* the click on connect, up to and including startCall: the user, the
\* token, the claim id or startCall may fail
handleConnect ==
    /\ pc = "idle"
    /\ conversation = "null"
    /\ \E ok \in BOOLEAN :
          IF ok THEN pc' = "initialCheck" /\ thrown' = "none"
          ELSE pc' = "catch" /\ thrown' = "Call could not be started"
    /\ jobStatus' = 0
    /\ retryCount' = 0
    /\ checks' = 0
    /\ sawReady' = FALSE
    /\ UNCHANGED <<shownError, conversation>>

\* let jobStatus = await checkJobStatus(...); let retryCount = 0
initialCheck ==
    /\ pc = "initialCheck"
    /\ \E ok \in BOOLEAN, outcome \in JobStatuses :
          /\ checks' = checks + 1
          /\ shownError' = AfterCheck(ok, shownError)
          /\ IF ~ok
             THEN /\ pc' = "catch"
                  /\ thrown' = "Failed to check job status"
                  /\ UNCHANGED <<jobStatus, sawReady>>
             ELSE /\ pc' = "while"
                  /\ jobStatus' = outcome
                  /\ sawReady' = (sawReady \/ outcome = 2)
                  /\ UNCHANGED thrown
    /\ retryCount' = 0
    /\ UNCHANGED conversation

\* one turn of the while loop: a second's wait, a check, retryCount++
retryCheck ==
    /\ pc = "while"
    /\ KeepsWaiting(jobStatus, retryCount)
    /\ \E ok \in BOOLEAN, outcome \in JobStatuses :
          /\ checks' = checks + 1
          /\ shownError' = AfterCheck(ok, shownError)
          /\ IF ~ok
             THEN /\ pc' = "catch"
                  /\ thrown' = "Failed to check job status"
                  /\ UNCHANGED <<jobStatus, sawReady, retryCount>>
             ELSE /\ pc' = "while"
                  /\ jobStatus' = outcome
                  /\ sawReady' = (sawReady \/ outcome = 2)
                  /\ retryCount' = retryCount + 1
                  /\ UNCHANGED thrown
    /\ UNCHANGED conversation

\* the loop is left: the throw of line 865, or on to getConversationAsync
leaveLoop ==
    /\ pc = "while"
    /\ ~KeepsWaiting(jobStatus, retryCount)
    /\ IF jobStatus # 2
       THEN pc' = "catch" /\ thrown' = "Job did not reach ready state"
       ELSE pc' = "getConversationAsync" /\ thrown' = thrown
    /\ UNCHANGED <<jobStatus, retryCount, checks, sawReady, shownError,
                   conversation>>

\* conversation = await callService.getConversationAsync(...), which may fail
getConversationAsync ==
    /\ pc = "getConversationAsync"
    /\ \E ok \in BOOLEAN :
          IF ok
          THEN pc' = "done" /\ conversation' = "conversation" /\ thrown' = thrown
          ELSE pc' = "catch" /\ conversation' = conversation
               /\ thrown' = "Conversation could not be opened"
    /\ UNCHANGED <<jobStatus, retryCount, checks, sawReady, shownError>>

\* the catch block: window.showError(error.message)
catchError ==
    /\ pc = "catch"
    /\ pc' = "done"
    /\ shownError' = thrown
    /\ UNCHANGED <<jobStatus, retryCount, checks, sawReady, thrown, conversation>>

\* the page's handleDisconnect once handleConnect has ended
pageDisconnect ==
    /\ pc = "done"
    /\ pc' = "idle"
    /\ conversation' = "null"
    /\ UNCHANGED <<jobStatus, retryCount, checks, sawReady, thrown, shownError>>

(***************************************************************************)
(* Specifications.                                                         *)
(***************************************************************************)
Init ==
    /\ InboundInit
    /\ OutboundInit
    /\ worklet = "sequenced"
    /\ call = [op |-> "new"]
    /\ codec = CodecIdle
    /\ SendInit
    /\ ConnectInit
    /\ CaptureInit
    /\ RefreshInit
    /\ KeycloakInit
    /\ LoadInit

\* the inbound processor of one session
Next ==
    \/ \E bytes \in SeqsUpTo(MsgBytes, MaxMsgLen) :
          handleMessage(bytes) /\ UNCHANGED <<outboundVars, codec, appVars>>
    \/ \E n \in 1 .. MaxPull :
          process(n) /\ UNCHANGED <<outboundVars, codec, appVars>>

Spec == Init /\ [][Next]_vars

\* the outbound processor of one session, from either worklet module
OutboundInitAny ==
    /\ InboundInit
    /\ OutboundInit
    /\ worklet \in {"archive", "sequenced"}
    /\ call = [op |-> "new"]
    /\ codec = CodecIdle
    /\ SendInit
    /\ ConnectInit
    /\ CaptureInit
    /\ RefreshInit
    /\ KeycloakInit
    /\ LoadInit

OutboundNext ==
    \/ \E samples32 \in SeqsUpTo(CaptureSamples, MaxBlockLen) \ {<<>>} :
          outboundProcess(samples32) /\ UNCHANGED <<inboundVars, codec, appVars>>
    \/ \E samples32 \in SeqsUpTo(CaptureSamples, MaxBlockLen) \ {<<>>} :
          archiveProcess(samples32) /\ UNCHANGED <<inboundVars, codec, appVars>>
    \/ processNoInput /\ UNCHANGED <<inboundVars, codec, appVars>>

OutboundSpec == OutboundInitAny /\ [][OutboundNext]_vars

\* the codec functions over their whole domains
CodecNext ==
    \/ callDecode /\ UNCHANGED <<inboundVars, outboundVars, call, appVars>>
    \/ callEncode /\ UNCHANGED <<inboundVars, outboundVars, call, appVars>>
    \/ callEncodeDecoded /\ UNCHANGED <<inboundVars, outboundVars, call, appVars>>
    \/ callReturn /\ UNCHANGED <<inboundVars, outboundVars, call, appVars>>

CodecSpec == Init /\ [][CodecNext]_vars

\* the sample conversions over their whole domains
ConvertNext ==
    \/ callGetSample16 /\ UNCHANGED <<inboundVars, outboundVars, call, appVars>>
    \/ callGetSample32 /\ UNCHANGED <<inboundVars, outboundVars, call, appVars>>
    \/ callGetInt16 /\ UNCHANGED <<inboundVars, outboundVars, call, appVars>>
    \/ runBytesJs /\ UNCHANGED <<inboundVars, outboundVars, call, appVars>>
    \/ callReturn /\ UNCHANGED <<inboundVars, outboundVars, call, appVars>>

ConvertSpec == Init /\ [][ConvertNext]_vars

\* sessions of both processors, one after the other
SessionNext ==
    \/ \E bytes \in SessionBytes :
          handleMessage(bytes) /\ UNCHANGED <<outboundVars, codec, appVars>>
    \/ process(1) /\ UNCHANGED <<outboundVars, codec, appVars>>
    \/ \E samples32 \in SessionBlocks :
          outboundProcess(samples32) /\ UNCHANGED <<inboundVars, codec, appVars>>
    \/ constructInbound /\ UNCHANGED <<outboundVars, codec, appVars>>
    \/ constructOutbound /\ UNCHANGED <<inboundVars, codec, appVars>>

SessionSpec == Init /\ [][SessionNext]_vars

\* both processors of one session, either outbound worklet
WorkletNext ==
    \/ \E bytes \in SessionBytes :
          handleMessage(bytes) /\ UNCHANGED <<outboundVars, codec, appVars>>
    \/ \E n \in 1 .. MaxPull :
          process(n) /\ UNCHANGED <<outboundVars, codec, appVars>>
    \/ \E samples32 \in SessionBlocks :
          outboundProcess(samples32) /\ UNCHANGED <<inboundVars, codec, appVars>>
    \/ \E samples32 \in SessionBlocks :
          archiveProcess(samples32) /\ UNCHANGED <<inboundVars, codec, appVars>>
    \/ processNoInput /\ UNCHANGED <<inboundVars, codec, appVars>>

WorkletSpec == OutboundInitAny /\ [][WorkletNext]_vars

\* the inbound processor while the audio engine keeps pulling: process is
\* called once per render quantum as long as the node lives
Pull ==
    \E n \in 1 .. MaxPull :
        process(n) /\ UNCHANGED <<outboundVars, codec, appVars>>

DrainSpec == Init /\ [][Next]_vars /\ WF_vars(Pull)

\* the outbound processor with the whole inputs argument
CaptureNext ==
    \E ins \in CaptureInputs :
        captureProcess(ins)
        /\ UNCHANGED <<inboundVars, codec, sendVars, connectVars, refreshVars,
                       keycloakVars, loadVars>>

CaptureSpec == OutboundInitAny /\ [][CaptureNext]_vars

\* the inbound path from the socket to the queue
ArrivalNext ==
    \/ \E parsed \in SocketMessages :
          handleWebSocketMessage(parsed)
          /\ UNCHANGED <<outboundVars, codec, sendVars, connectVars, refreshVars,
                         keycloakVars, loadVars>>
    \/ deliverMessage
          /\ UNCHANGED <<outboundVars, codec, sendVars, connectVars, refreshVars,
                         keycloakVars, loadVars>>
    \/ process(1)
          /\ UNCHANGED <<outboundVars, codec, appVars>>

ArrivalSpec == Init /\ [][ArrivalNext]_vars

\* the token refresh of one page
RefreshNext ==
    \/ authenticate
          /\ UNCHANGED <<inboundVars, outboundVars, codec, sendVars, connectVars,
                         captureVars, keycloakVars, loadVars>>
    \/ tick
          /\ UNCHANGED <<inboundVars, outboundVars, codec, sendVars, connectVars,
                         captureVars, keycloakVars, loadVars>>
    \/ timerFires
          /\ UNCHANGED <<inboundVars, outboundVars, codec, sendVars, connectVars,
                         captureVars, keycloakVars, loadVars>>
    \/ refreshResolves
          /\ UNCHANGED <<inboundVars, outboundVars, codec, sendVars, connectVars,
                         captureVars, keycloakVars, loadVars>>
    \/ refreshRejects
          /\ UNCHANGED <<inboundVars, outboundVars, codec, sendVars, connectVars,
                         captureVars, keycloakVars, loadVars>>

RefreshSpec == Init /\ [][RefreshNext]_vars

\* the calls of initKeycloak and login, interleaved at their awaits
KeycloakNext ==
    \/ \E c \in Callers :
          initKeycloak(c)
          /\ UNCHANGED <<inboundVars, outboundVars, call, codec, sendVars,
                         connectVars, captureVars, refreshVars, loadVars>>
    \/ \E c \in Callers :
          login(c)
          /\ UNCHANGED <<inboundVars, outboundVars, call, codec, sendVars,
                         connectVars, captureVars, refreshVars, loadVars>>
    \/ \E c \in Callers :
          initSettles(c)
          /\ UNCHANGED <<inboundVars, outboundVars, call, codec, sendVars,
                         connectVars, captureVars, refreshVars, loadVars>>

KeycloakSpec == Init /\ [][KeycloakNext]_vars

\* loadAudioWorklet, called with any retries argument
LoadNext ==
    \/ loadAudioWorklet
          /\ UNCHANGED <<inboundVars, outboundVars, call, codec, sendVars,
                         connectVars, captureVars, refreshVars, keycloakVars>>
    \/ addModuleSettles
          /\ UNCHANGED <<inboundVars, outboundVars, call, codec, sendVars,
                         connectVars, captureVars, refreshVars, keycloakVars>>
    \/ waitElapses
          /\ UNCHANGED <<inboundVars, outboundVars, call, codec, sendVars,
                         connectVars, captureVars, refreshVars, keycloakVars>>
    \/ loadSettled
          /\ UNCHANGED <<inboundVars, outboundVars, call, codec, sendVars,
                         connectVars, captureVars, refreshVars, keycloakVars>>

LoadSpec == Init /\ [][LoadNext]_vars

\* the call-service client: the outbound worklet, the socket and the handler
SendBlocks == {<<x>> : x \in CaptureSamples}

SendNext ==
    \/ handleConnectAsnyc
          /\ UNCHANGED <<inboundVars, outboundVars, codec, connectVars, pageVars>>
    \/ createOutboundAudioContextAsync
          /\ UNCHANGED <<inboundVars, codec, connectVars, pageVars>>
    \/ handleWebSocketOpen
          /\ UNCHANGED <<inboundVars, outboundVars, codec, connectVars, pageVars>>
    \/ socketClosing
          /\ UNCHANGED <<inboundVars, outboundVars, codec, connectVars, pageVars>>
    \/ handleDisconnect
          /\ UNCHANGED <<inboundVars, outboundVars, codec, connectVars, pageVars>>
    \/ \E samples32 \in SendBlocks :
          /\ outboundAudioContext = "running"
          /\ outboundProcess(samples32)
          /\ UNCHANGED <<inboundVars, codec, appVars>>
    \/ handleOutboundMessageAsync
          /\ UNCHANGED <<inboundVars, outboundVars, codec, connectVars, pageVars>>

SendSpec == Init /\ [][SendNext]_vars

\* handleConnect of the javascript demo
ConnectNext ==
    \/ handleConnect /\ UNCHANGED <<inboundVars, outboundVars, call, codec, sendVars, pageVars>>
    \/ initialCheck /\ UNCHANGED <<inboundVars, outboundVars, call, codec, sendVars, pageVars>>
    \/ retryCheck /\ UNCHANGED <<inboundVars, outboundVars, call, codec, sendVars, pageVars>>
    \/ leaveLoop /\ UNCHANGED <<inboundVars, outboundVars, call, codec, sendVars, pageVars>>
    \/ getConversationAsync
          /\ UNCHANGED <<inboundVars, outboundVars, call, codec, sendVars, pageVars>>
    \/ catchError /\ UNCHANGED <<inboundVars, outboundVars, call, codec, sendVars, pageVars>>
    \/ pageDisconnect /\ UNCHANGED <<inboundVars, outboundVars, call, codec, sendVars, pageVars>>

ConnectSpec == Init /\ [][ConnectNext]_vars

(***************************************************************************)
(* Properties of the inbound processor (Spec).                             *)
(***************************************************************************)
Min(a, b) == IF a <= b THEN a ELSE b

\* C1: a pull of n samples from a queue of q samples writes exactly n
\* positions: the first min(n, q) are the oldest queued samples in the
\* order they were appended, every other position is 0, and the queue
\* keeps exactly the other max(0, q - n) samples in unchanged order.
C1_PullFifoThenSilence ==
    [][call'.op = "process" =>
         LET n == call'.n
             m == Min(n, Len(queue))
         IN  /\ Len(output') = n
             /\ \A i \in 1 .. n :
                   IF i <= m THEN FloatEq(output'[i], queue[i])
                   ELSE output'[i] = FZero
             /\ queue' = SubSeq(queue, m + 1, Len(queue))]_vars

\* the example of C1: three samples pushed, two pulled, two pulled again
C1_Witness ==
    /\ call.op = "process" /\ call.n = 2
    /\ Len(arrived) = 3 /\ Len(played) = 3
    /\ arrived[3].n # 0
    /\ output = <<arrived[3], FZero>>
    /\ queue = <<>>

\* C3: over every interleaving of handleMessage and process the samples
\* written from the queue, concatenated over all pulls, are a prefix of the
\* decoded samples in arrival order, the samples not yet written are the
\* queue (none lost, duplicated or reordered), and a padding zero is
\* written only while the queue is empty.
C3_StrictFifo ==
    /\ Len(played) <= Len(arrived)
    /\ \A i \in 1 .. Len(played) : FloatEq(played[i], arrived[i])
    /\ queue = SubSeq(arrived, Len(played) + 1, Len(arrived))
    /\ \A i \in 1 .. Len(slots) : slots[i].pad => slots[i].qlen = 0

\* pulls interleaved with arrivals: after an earlier pull played the first
\* sample, a pull of one plays a zero-valued sample from the head of a
\* queue of two, written from the queue and not as padding
C3_Witness ==
    /\ call.op = "process"
    /\ Len(arrived) = 3 /\ Len(played) = 2
    /\ arrived[2].n = 0 /\ arrived[1].n # 0
    /\ Len(slots) = 1 /\ ~slots[1].pad /\ slots[1].qlen = 2

\* C4: a pull of n samples from an empty queue returns, writes 0 to all n
\* positions and leaves the queue empty.
C4_UnderflowGivesSilence ==
    [][(call'.op = "process" /\ queue = <<>>) =>
         /\ call'.returned
         /\ Len(output') = call'.n
         /\ \A i \in 1 .. Len(output') : output'[i] = FZero
         /\ queue' = <<>>]_vars

\* a pull of two samples that found the queue empty, after samples had
\* been played
C4_Witness ==
    /\ call.op = "process" /\ call.n = 2
    /\ Len(slots) = 2 /\ slots[1].pad /\ slots[1].qlen = 0 /\ slots[2].pad
    /\ output = <<FZero, FZero>>
    /\ played # <<>>
    /\ queue = <<>>

\* C5: a message of k bytes appends exactly k samples to the tail of the
\* queue, the i-th being getSample32(decodeSample8(bytes[i])); the samples
\* already queued keep their values and positions.
C5_MessageAppendsDecoded ==
    [][call'.op = "handleMessage" =>
         LET bytes == call'.bytes
             q     == Len(queue)
         IN  /\ Len(queue') = q + Len(bytes)
             /\ SubSeq(queue', 1, q) = queue
             /\ \A i \in 1 .. Len(bytes) :
                   queue'[q + i] = getSample32(decodeSample8(bytes[i]))]_vars

\* a two-byte message appended behind a sample that was still queued
C5_Witness ==
    /\ call.op = "handleMessage" /\ Len(call.bytes) = 2
    /\ Len(queue) = 3
    /\ queue[2] = Float(16764, 32767) /\ queue[3] = Float(-32124, 32768)

C6_DecodeExact ==
    codec.op = "decode" =>
        LET table     == <<0, 132, 396, 924, 1980, 4092, 8316, 16764>>
            c         == 255 - codec.input
            sign      == c \div 128
            exponent  == (c \div 16) % 8
            mantissa  == c % 16
            magnitude == table[exponent + 1] + mantissa * 2 ^ (exponent + 3)
            Abs(x)    == IF x < 0 THEN -x ELSE x
        IN  /\ Abs(codec.sample8) = magnitude
            /\ codec.sample8 < 0 <=> (sign = 1 /\ magnitude # 0)
            /\ codec.sample = codec.sample8
            /\ codec.input = 255 => codec.sample8 = 0
            /\ mantissa = 0 => Abs(codec.sample8) = table[exponent + 1]

\* the byte 0x00 decoded: sign set, segment 7, mantissa 15
C6_Witness ==
    codec.op = "decode" /\ codec.input = 0 /\ codec.sample8 = -32124

\* bits 6-4 of a mu-law code
Segment(code) == (code \div 16) % 8

\* C7: for every byte b, encode(decode(b)) lies in the same 3-bit exponent
\* segment (bits 6-4) as b.
C7_RoundTripSegment ==
    codec.op = "roundtrip" =>
        /\ Segment(codec.muLaw) = Segment(codec.input)
        /\ Segment(codec.muLaw16) = Segment(codec.input)

\* the byte 0x7F (negative zero) comes back as the code of positive zero,
\* another byte of the same segment
C7_Witness ==
    /\ codec.op = "roundtrip" /\ codec.input = 127
    /\ codec.muLaw % 256 = 255

\* C8: for every signed 16-bit sample, encode returns an integer in the
\* range 0 .. 255.
C8_EncodeReturnsByte ==
    codec.op = "encode" =>
        /\ codec.muLaw \in 0 .. 255
        /\ codec.muLaw16 \in 0 .. 255

\* C9: every sample s with 32635 <= s <= 32767 encodes to the code of
\* 32635.
C9_ClipSaturates ==
    (codec.op = "encode" /\ codec.input \in 32635 .. 32767) =>
        /\ codec.muLaw = encodeSample(32635)
        /\ codec.muLaw16 = encodeSample16(32635)

\* the loudest sample encoded to the code of CLIP, 0x80 in its low 8 bits
C9_Witness ==
    /\ codec.op = "encode" /\ codec.input = 32767
    /\ codec.muLaw = -128 /\ codec.muLaw16 = -128

C12_FloatToInt16 ==
    codec.op = "getSample16" =>
        LET x        == codec.input
            scaled   == IF x.n > 0 THEN x.n * 32767 ELSE x.n * 32768
            expected == IF scaled >= 0 THEN scaled \div x.d
                        ELSE -((-scaled) \div x.d)
        IN  /\ codec.sample16 = expected
            /\ codec.sample16 \in -32768 .. 32767
            /\ FloatEq(x, Float(1, 1)) => codec.sample16 = 32767
            /\ FloatEq(x, Float(-1, 1)) => codec.sample16 = -32768

\* 1.0 converted to 32767
C12_Witness ==
    codec.op = "getSample16" /\ codec.input = Float(1, 1) /\ codec.sample16 = 32767

\* C13: for every signed 16-bit s, getSample32 (and the converter's copy of
\* the rule) returns s/32767 when s > 0 and s/32768 otherwise; the result
\* lies in [-1.0, 1.0], 32767 gives 1.0, -32768 gives -1.0 and 0 gives 0.
C13_Int16ToFloat ==
    codec.op = "getSample32" =>
        LET s  == codec.input
            r  == codec.sample32
        IN  /\ r.d > 0
            /\ IF s > 0 THEN r.n * 32767 = s * r.d ELSE r.n * 32768 = s * r.d
            /\ -r.d <= r.n /\ r.n <= r.d
            /\ s = 32767 => FloatEq(r, Float(1, 1))
            /\ s = -32768 => FloatEq(r, Float(-1, 1))
            /\ s = 0 => FloatEq(r, FZero)
            /\ FloatEq(codec.loaded, r)

\* the loudest positive sample converted to 1.0
C13_Witness ==
    /\ codec.op = "getSample32" /\ codec.input = 32767
    /\ codec.sample32.n = codec.sample32.d

\* C19: for every signed 16-bit sample s, getInt16 of the low and high
\* order bytes of s is s, the two's-complement value of the byte pair
\* with the high byte first; bytes.js computes -1116, -924, -620, -276,
\* 32, 180, 244 and 340 from its 16 bytes.
C19_BigEndianReadBack ==
    /\ codec.op = "getInt16" =>
          /\ codec.value = codec.input
          /\ codec.high \in 0 .. 255 /\ codec.low \in 0 .. 255
          /\ codec.value = (IF codec.high >= 128 THEN -65536 ELSE 0)
                           + 256 * codec.high + codec.low
    /\ codec.op = "bytesJs" =>
          codec.samples16 = <<-1116, -924, -620, -276, 32, 180, 244, 340>>

\* the sample -1116 read back from its bytes 251, 164
C19_Witness ==
    /\ codec.op = "getInt16" /\ codec.input = -1116
    /\ codec.high = 251 /\ codec.low = 164 /\ codec.value = -1116

(***************************************************************************)
(* More properties of the codec (CodecSpec).                               *)
(***************************************************************************)
\* C14: decode returns a value of the signed 16-bit range for every byte,
\* and encode completes for every 16-bit sample, its table index
\* (sample >> 7) & 0xFF addressing a defined entry of the 256-entry table.
C14_CodecTotal ==
    /\ codec.op = "decode" =>
          /\ codec.sample \in -32768 .. 32767
          /\ codec.sample8 \in -32768 .. 32767
    /\ codec.op = "encode" =>
          /\ codec.index \in 0 .. 255
          /\ codec.index + 1 \in DOMAIN encodeTable
          /\ codec.index + 1 \in DOMAIN encodeTable16
          /\ codec.muLaw \in Int /\ codec.muLaw16 \in Int

\* the most negative sample encoded: the clipped index 254
C14_Witness ==
    /\ codec.op = "encode" /\ codec.input = -32768
    /\ codec.index = 254 /\ codec.muLaw = -256

\* the segment of a table index according to C15
ClaimedSegment(i) ==
    IF i <= 1 THEN 0 ELSE IF i <= 3 THEN 1 ELSE IF i <= 7 THEN 2
    ELSE IF i <= 15 THEN 3 ELSE IF i <= 31 THEN 4 ELSE IF i <= 63 THEN 5
    ELSE IF i <= 127 THEN 6 ELSE 7

\* C15: the encode table has 256 entries and maps indices 0-1 to 0, 2-3 to
\* 1, 4-7 to 2, 8-15 to 3, 16-31 to 4, 32-63 to 5, 64-127 to 6 and 128-255
\* to 7; its two copies are identical entry for entry; every encode call
\* returns the segment of its index in bits 6-4 of the complemented code.
C15_SegmentTable ==
    /\ Len(encodeTable) = 256 /\ Len(encodeTable16) = 256
    /\ \A i \in 0 .. 255 :
          /\ encodeTable[i + 1] = ClaimedSegment(i)
          /\ encodeTable16[i + 1] = encodeTable[i + 1]
    /\ codec.op = "encode" =>
          /\ Segment(BitNot(codec.muLaw)) = ClaimedSegment(codec.index)
          /\ Segment(BitNot(codec.muLaw16)) = ClaimedSegment(codec.index)

\* the first sample of segment 7: index 128
C15_Witness ==
    /\ codec.op = "encode" /\ codec.input = 16252
    /\ codec.index = 128 /\ Segment(BitNot(codec.muLaw)) = 7

(***************************************************************************)
(* More properties of the inbound processor (Spec).                        *)
(***************************************************************************)
\* C18: onBytesReceived never drops, rejects or overwrites: whatever the
\* queue holds, a message is accepted and the queue grows by one sample
\* per byte behind what it held, nothing being played or posted; the queue
\* length is always the number of bytes received minus the number of
\* samples dequeued, so it grows as long as arrivals outpace pulls.
C18_UnboundedQueue ==
    /\ [](Len(queue) = Len(arrived) - Len(played))
    /\ [](Len(arrived) < MaxArrived =>
             ENABLED (handleMessage(<<255>>) /\ UNCHANGED <<outboundVars, codec, appVars>>))
    /\ [][call'.op = "handleMessage" =>
             /\ Len(queue') = Len(queue) + Len(call'.bytes)
             /\ SubSeq(queue', 1, Len(queue)) = queue
             /\ Len(arrived') = Len(arrived) + Len(call'.bytes)
             /\ UNCHANGED <<played, output, port>>]_vars

\* three messages and no pull: every received sample is queued
C18_Witness ==
    /\ call.op = "handleMessage" /\ Len(call.bytes) = 1
    /\ played = <<>>
    /\ Len(arrived) = MaxArrived
    /\ Len(queue) = MaxArrived

(***************************************************************************)
(* Properties of the sessions (SessionSpec).                               *)
(***************************************************************************)
\* C16: a newly constructed processor starts with sequence counter 0 and
\* an empty sample queue, whatever the session before it left: its first
\* message carries number 0 and its first pull, with nothing received, is
\* silence; within a session the counter is never reset and never decreases.
C16_SessionReset ==
    [][/\ call'.op = "constructor" /\ call'.of = "outbound" =>
             sequenceNumber' = 0 /\ port' = <<>>
       /\ call'.op = "constructor" /\ call'.of = "inbound" => queue' = <<>>
       /\ call.op = "constructor" /\ call.of = "outbound"
             /\ call'.op = "outboundProcess" => port'[1].sequenceNumber = 0
       /\ call.op = "constructor" /\ call.of = "inbound"
             /\ call'.op = "process" => \A i \in DOMAIN slots' : slots'[i].pad
       /\ call'.op # "constructor" =>
             /\ sequenceNumber' >= sequenceNumber
             /\ call'.op = "outboundProcess" => sequenceNumber' > sequenceNumber
      ]_vars

\* a session that posted two blocks is replaced: the counter is 0 again
C16_Witness ==
    /\ call.op = "constructor" /\ call.of = "outbound"
    /\ call.discarded = 2
    /\ sequenceNumber = 0 /\ port = <<>>

(***************************************************************************)
(* Properties of the send path (SendSpec).                                 *)
(***************************************************************************)
\* C17: a capture block delivered to handleOutboundMessageAsync while the
\* socket is not open, or already torn down by handleDisconnect, is
\* dropped without raising an error.
C17_DropsWithoutError ==
    call.op = "handleOutboundMessageAsync" /\ call.socket # "OPEN" =>
        call.outcome = "dropped"

(***************************************************************************)
(* Properties of handleConnect (ConnectSpec).                              *)
(***************************************************************************)
\* C20 as stated: once handleConnect has polled and ended without a check
\* that returned status 2, it has raised 'Job did not reach ready state',
\* shown it and left the conversation unset.
C20_AlwaysNotReadyError ==
    pc = "done" /\ checks >= 1 /\ ~sawReady =>
        /\ thrown = "Job did not reach ready state"
        /\ shownError = thrown
        /\ conversation = "null"

\* C20: handleConnect checks the job status at most 31 times, one initial
\* check and at most 30 retries; getConversationAsync is called only after
\* a check returned status 2; when it has polled and no check returned 2 it
\* ends with the error shown and the conversation unset, the error being
\* 'Job did not reach ready state' after 31 completed checks and the
\* failed check's own error when a check failed.
C20_BoundedPolling ==
    /\ checks <= 31
    /\ retryCount <= 30
    /\ pc = "while" => checks = retryCount + 1
    /\ (pc = "getConversationAsync" \/ conversation # "null") => sawReady
    /\ pc = "done" /\ checks >= 1 /\ ~sawReady =>
          /\ shownError = thrown
          /\ conversation = "null"
          /\ \/ thrown = "Job did not reach ready state" /\ checks = 31
             \/ thrown = "Failed to check job status"

\* 31 checks, none ready: the error of line 865 is shown
C20_Witness ==
    /\ pc = "done" /\ checks = 31 /\ ~sawReady
    /\ thrown = "Job did not reach ready state"
    /\ shownError = thrown
    /\ conversation = "null"

(***************************************************************************)
(* Capture callbacks without input, and the value process returns.         *)
(***************************************************************************)
\* C24: a capture callback without channel data posts no message and leaves
\* the sequence counter unchanged, so the next emitted block carries the
\* number directly following that of the block emitted before it.
C24_NoInputNoGap ==
    [][/\ call'.op = "processNoInput" =>
             /\ port' = port
             /\ captured' = captured
             /\ sequenceNumber' = sequenceNumber
       /\ call'.op = "outboundProcess" =>
             port'[Len(port')].sequenceNumber =
                 IF port = <<>> THEN 0
                 ELSE port[Len(port)].sequenceNumber + 1
      ]_vars

\* a callback without input after the first block: the counter stays at 1
C24_Witness ==
    /\ call.op = "processNoInput"
    /\ worklet = "sequenced"
    /\ Len(port) = 1 /\ port[1].sequenceNumber = 0
    /\ sequenceNumber = 1

C28_Drains ==
    /\ <>[](/\ queue = <<>>
            /\ Len(played) = Len(arrived)
            /\ \A i \in DOMAIN played : FloatEq(played[i], arrived[i])
            /\ \A i \in DOMAIN slots : slots[i].pad
            /\ \A i \in DOMAIN output : output[i].n = 0)
    /\ [](queue # <<>> => <>(queue = <<>>))

\* a session whose samples were all played, followed by a pull of silence
C28_Witness ==
    /\ call.op = "process"
    /\ Len(arrived) = MaxArrived /\ Len(played) = MaxArrived
    /\ queue = <<>>
    /\ output # <<>> /\ \A i \in DOMAIN slots : slots[i].pad

(***************************************************************************)
(* Algebraic properties of the codec (CodecSpec).                          *)
(***************************************************************************)
\* C29: for every byte b other than 0x7F the low 8 bits of encode(decode(b))
\* are b; for b = 0x7F, negative zero, they are 0xFF, the code of
\* positive zero.
C29_RoundTripExact ==
    codec.op = "roundtrip" =>
        LET expected == IF codec.input = 127 THEN 255 ELSE codec.input
        IN  /\ codec.muLaw % 256 = expected
            /\ codec.muLaw16 % 256 = expected
            /\ BitAnd(codec.muLaw, 255) = expected

\* negative zero, 0x7F, comes back as 0xFF
C29_Witness ==
    codec.op = "roundtrip" /\ codec.input = 127 /\ codec.muLaw % 256 = 255

\* C30: for every byte b, decode(b XOR 0x80) = -decode(b): the decoded
\* magnitude depends only on the low 7 bits of b.
C30_DecodeSignSymmetry ==
    codec.op = "decode" =>
        LET flipped == BitXor(codec.input, 128)
        IN  /\ flipped \in 0 .. 255 /\ flipped % 128 = codec.input % 128
            /\ decodeSample8(flipped) = -codec.sample8
            /\ decodeSample(flipped) = -codec.sample

\* the loudest negative sample: its mirror 0x80 decodes to 32124
C30_Witness ==
    /\ codec.op = "decode" /\ codec.input = 0 /\ codec.sample8 = -32124
    /\ decodeSample8(128) = 32124

\* C31: for every s in 1..32767, encode(-s) and encode(s) differ in bit 7
\* only: the exponent and mantissa bits are the same.
C31_EncodeSignSymmetry ==
    (codec.op = "encode" /\ codec.input \in 1 .. 32767) =>
        LET negated   == encodeSample(-codec.input)
            negated16 == encodeSample16(-codec.input)
        IN  /\ BitXor(negated, codec.muLaw) = 128
            /\ BitXor(negated16, codec.muLaw16) = 128
            /\ negated % 128 = codec.muLaw % 128
            /\ negated16 % 128 = codec.muLaw16 % 128

\* the loudest sample: 32767 encodes to ~0x7F and -32767 to ~0xFF
C31_Witness ==
    /\ codec.op = "encode" /\ codec.input = 32767
    /\ codec.muLaw = -128 /\ codec.muLaw16 = -128
    /\ encodeSample(-32767) = -256 /\ encodeSample16(-32767) = -256

\* the 7-bit magnitude code of an encoder result: (exponent << 4) | mantissa,
\* read back through the final complement
MagnitudeCode(muLawSample) == BitAnd(BitNot(muLawSample), 127)

\* C32: the encoder is order-preserving on the non-negative samples: for
\* a <= b in 0..32767 the magnitude code of a is not greater than that of b.
\* Every encoded b is compared with its predecessor b - 1, which gives every
\* pair a <= b by transitivity, and with the two ends 0 and 32767.
C32_EncodeMonotone ==
    (codec.op = "encode" /\ codec.input \in 0 .. 32767) =>
        LET b == codec.input
            a == IF b = 0 THEN 0 ELSE b - 1
        IN  /\ MagnitudeCode(encodeSample(a)) <= MagnitudeCode(codec.muLaw)
            /\ MagnitudeCode(encodeSample16(a)) <= MagnitudeCode(codec.muLaw16)
            /\ MagnitudeCode(encodeSample(0)) <= MagnitudeCode(codec.muLaw)
            /\ MagnitudeCode(encodeSample16(0)) <= MagnitudeCode(codec.muLaw16)
            /\ MagnitudeCode(codec.muLaw) <= MagnitudeCode(encodeSample(32767))
            /\ MagnitudeCode(codec.muLaw16) <= MagnitudeCode(encodeSample16(32767))
            /\ BitNot(codec.muLaw) = MagnitudeCode(codec.muLaw)
            /\ BitNot(codec.muLaw16) = MagnitudeCode(codec.muLaw16)

\* the first segment boundary: 123 encodes to code 15 and 124 to code 16
C32_Witness ==
    /\ codec.op = "encode" /\ codec.input = 124
    /\ MagnitudeCode(codec.muLaw) = 16 /\ MagnitudeCode(codec.muLaw16) = 16
    /\ MagnitudeCode(encodeSample(123)) = 15
    /\ MagnitudeCode(encodeSample16(123)) = 15

(***************************************************************************)
(* Properties of the authentication and loading code of the pages.         *)
(***************************************************************************)
\* C21: whenever a refresh started by setupTokenRefresh succeeds, the
\* scheduled one or the immediate one, setupTokenRefresh runs again, so
\* that a further refresh is pending: a timer or a refresh in flight.
C21_RefreshRearmed ==
    call.op = "refreshSucceeded" => (timers # {} \/ refreshing # {})

\* C22: over any sequence and interleaving of initKeycloak and login calls
\* keycloakInstance.init is invoked at most once.
C22_InitAtMostOnce ==
    initCalls <= 1

\* C23: for every retries value loadAudioWorklet either returns true after
\* the first successful addModule or throws the last error after all
\* attempts failed, with at most retries attempts and no other result.
C23_TrueOrLastError ==
    loadPc \in {"returnedTrue", "thrown", "resolvedUndefined"} =>
        /\ Len(attempts) <= retries
        /\ \A i \in 1 .. Len(attempts) - 1 : attempts[i] # "ok"
        /\ \/ /\ loadPc = "returnedTrue"
              /\ attempts # <<>> /\ attempts[Len(attempts)] = "ok"
           \/ /\ loadPc = "thrown"
              /\ Len(attempts) = retries
              /\ attempts # <<>> /\ attempts[Len(attempts)] # "ok"
              /\ loadThrown = attempts[Len(attempts)]

RECURSIVE SamplesOf(_)
SamplesOf(messages) ==
    IF messages = <<>> THEN <<>>
    ELSE DecodeBytes(Head(messages).bytes) \o SamplesOf(Tail(messages))

\* C27: the inbound processor enqueues samples strictly in the order the
\* messages reach handleMessage, whatever their sequence numbers:
\* reordered, duplicated or missing numbers change nothing; the samples
\* received are those of the handled messages in arrival order, each as
\* often as it arrived, and the queue is what is left of them to play.
C27_ArrivalOrder ==
    LET handled == SubSeq(events, 1, Len(events) - Len(inPort))
    IN  /\ Len(inPort) <= Len(events)
        /\ inPort = SubSeq(events, Len(handled) + 1, Len(events))
        /\ arrived = SamplesOf(handled)
        /\ Len(played) <= Len(arrived)
        /\ queue = SubSeq(arrived, Len(played) + 1, Len(arrived))

\* numbers 2, 0, 0: out of order, a duplicate and a gap, all three queued
C27_Witness ==
    /\ call.op = "handleMessage"
    /\ Len(events) = 3 /\ inPort = <<>>
    /\ events[1].sequenceNumber = 2 /\ events[1].bytes = <<0>>
    /\ events[2].sequenceNumber = 0 /\ events[2].bytes = <<255>>
    /\ events[3].sequenceNumber = 0 /\ events[3].bytes = <<0>>
    /\ played = <<>>
    /\ Len(queue) = 3 /\ queue[1].n = -32124 /\ queue[2].n = 0 /\ queue[3].n = -32124

=============================================================================
